---------------------------- MODULE Spec2Model ----------------------------
(***************************************************************************)
(* A model of the binary diffing task of rust_diff (src/__init__.py):      *)
(* BinaryDiffTask.run, feature extraction, the three-phase greedy matcher  *)
(* (_match_functions) and the similarity scorer                            *)
(* (_calculate_similarity, _calculate_similarity_original).                *)
(*                                                                         *)
(* Python floats are modelled by exact rationals <<n, d>> with d > 0 in    *)
(* lowest terms; a comparison of two floats is the comparison of the two   *)
(* rationals.                                                              *)
(***************************************************************************)
EXTENDS Integers, Sequences, FiniteSets, TLC

(***************************************************************************)
(* Rational arithmetic (the float operations of the source).               *)
(***************************************************************************)
RECURSIVE GCD(_, _)
GCD(a, b) == IF b = 0 THEN a ELSE GCD(b, a % b)

Abs(x) == IF x < 0 THEN -x ELSE x

Rat(n, d) ==
    IF d = 1 THEN <<n, 1>>
    ELSE LET s == IF d < 0 THEN -1 ELSE 1
             g == GCD(Abs(n), Abs(d))
         IN  <<(s * n) \div g, (s * d) \div g>>

FromInt(k) == <<k, 1>>

Zero == FromInt(0)

One == FromInt(1)

RAdd(x, y) ==
    IF x[2] = y[2] THEN Rat(x[1] + y[1], x[2])
    ELSE Rat(x[1] * y[2] + y[1] * x[2], x[2] * y[2])

RSub(x, y) ==
    IF x[2] = y[2] THEN Rat(x[1] - y[1], x[2])
    ELSE Rat(x[1] * y[2] - y[1] * x[2], x[2] * y[2])

RMul(x, y) ==
    IF x[2] = 1 /\ y[2] = 1 THEN <<x[1] * y[1], 1>>
    ELSE LET g1 == GCD(Abs(x[1]), y[2])
             g2 == GCD(Abs(y[1]), x[2])
         IN  Rat((x[1] \div g1) * (y[1] \div g2), (x[2] \div g2) * (y[2] \div g1))

RDiv(x, y) == RMul(x, Rat(y[2], y[1]))

\* x < y, by comparing integer parts and then the reciprocals of the
\* fractional parts, so that no product of two denominators is formed.
RECURSIVE RLess(_, _)
RLess(x, y) ==
    IF x[2] = y[2] THEN x[1] < y[1] ELSE
    LET qx == x[1] \div x[2]
        qy == y[1] \div y[2]
        rx == x[1] % x[2]
        ry == y[1] % y[2]
    IN  IF qx # qy THEN qx < qy
        ELSE IF rx = 0 THEN ry > 0
        ELSE IF ry = 0 THEN FALSE
        ELSE RLess(<<y[2], ry>>, <<x[2], rx>>)

RGreater(x, y) == RLess(y, x)

RLeq(x, y) == ~RLess(y, x)

RMin(x, y) == IF RLess(y, x) THEN y ELSE x

RMax(x, y) == IF RLess(x, y) THEN y ELSE x

RAbs(x) == <<Abs(x[1]), x[2]>>

IMax(a, b) == IF a < b THEN b ELSE a

IMin(a, b) == IF a < b THEN a ELSE b

(***************************************************************************)
(* Strings.  A Python str is the sequence of its characters.               *)
(***************************************************************************)
UpperCase ==
    [c \in {"A", "B", "C", "D", "E", "F", "M", "S", "X"} |->
        CASE c = "A" -> "a" [] c = "B" -> "b" [] c = "C" -> "c"
          [] c = "D" -> "d" [] c = "E" -> "e" [] c = "F" -> "f"
          [] c = "M" -> "m" [] c = "S" -> "s" [] c = "X" -> "x"]

\* str.lower(), for the letters the modelled names are written in.
Lower(s) ==
    [k \in 1..Len(s) |-> IF s[k] \in DOMAIN UpperCase THEN UpperCase[s[k]] ELSE s[k]]

StartsWith(s, p) == Len(s) >= Len(p) /\ SubSeq(s, 1, Len(p)) = p

prefixes ==
    << <<"s", "u", "b", "_">>,
       <<"f", "c", "n", "_">>,
       <<"f", "c", "n", ".">>,
       <<"f", "u", "n", "c", "t", "i", "o", "n", "_">>,
       <<"f", "u", "n", "c", "_">>,
       <<"f", "_">> >>

\* The loop over prefixes: each prefix in turn is removed when the name, as
\* left by the prefixes before it, starts with it.
RECURSIVE StripPrefixes(_, _)
StripPrefixes(name, k) ==
    IF k > Len(prefixes) THEN name
    ELSE StripPrefixes(IF StartsWith(name, prefixes[k])
                       THEN SubSeq(name, Len(prefixes[k]) + 1, Len(name))
                       ELSE name, k + 1)

HexPrefix == <<"0", "x">>

(***************************************************************************)
(* Sub-similarities.                                                       *)
(***************************************************************************)
\* 1.0 - min(1.0, abs(a - b) / max(1, max(a, b))) over integers a, b.
RatioSim(a, b) ==
    RSub(One, RMin(One, Rat(Abs(a - b), IMax(1, IMax(a, b)))))

DensityFloor == Rat(1, 1000)

\* 1.0 - min(1.0, abs(a - b) / max(0.001, max(a, b))) over floats a, b.
DensitySim(a, b) ==
    RSub(One, RMin(One, RDiv(RAbs(RSub(a, b)), RMax(DensityFloor, RMax(a, b)))))

Range(s) == {s[k] : k \in DOMAIN s}

_calculate_set_similarity(set1, set2) ==
    IF set1 = {} /\ set2 = {} THEN One
    ELSE LET intersection == Cardinality(set1 \cap set2)
             union == Cardinality(set1 \cup set2)
         IN  IF union > 0 THEN Rat(intersection, union) ELSE Zero

HistGet(hist, key) == IF key \in DOMAIN hist THEN hist[key] ELSE 0

\* The sum over keys of hist1.get(key, 0) * hist2.get(key, 0).
RECURSIVE DotProduct(_, _, _)
DotProduct(hist1, hist2, keys) ==
    IF keys = {} THEN 0
    ELSE LET key == CHOOSE x \in keys : TRUE
         IN  HistGet(hist1, key) * HistGet(hist2, key)
                 + DotProduct(hist1, hist2, keys \ {key})

\* x ** 0.5 for the magnitudes the model is given: those with an integer root.
Sqrt(n) == CHOOSE r \in 0..n : r * r = n

\* A cosine that is 1.0 for two histograms of magnitude 0.
CosineOneForEmpty(dot_product, mag1, mag2) ==
    IF mag1 = 0 /\ mag2 = 0 THEN One
    ELSE IF mag1 = 0 \/ mag2 = 0 THEN Zero
    ELSE Rat(dot_product, mag1 * mag2)

\* The quotient of the loop's sums.
Cosine(dot_product, mag1, mag2) ==
    IF mag1 = 0 \/ mag2 = 0 THEN Zero ELSE Rat(dot_product, mag1 * mag2)

_calculate_histogram_similarity(hist1, hist2) ==
    Cosine(DotProduct(hist1, hist2, DOMAIN hist1 \cup DOMAIN hist2),
           Sqrt(DotProduct(hist1, hist1, DOMAIN hist1 \cup DOMAIN hist2)),
           Sqrt(DotProduct(hist2, hist2, DOMAIN hist1 \cup DOMAIN hist2)))

RECURSIVE ProductOf(_, _)
ProductOf(s, n) == IF n = 0 THEN 1 ELSE s[n] * ProductOf(s, n - 1)

_calculate_prime_similarity(primes1, primes2) ==
    IF primes1 = <<>> /\ primes2 = <<>> THEN One
    ELSE IF primes1 = <<>> \/ primes2 = <<>> THEN Zero
    ELSE LET jaccard_sim == _calculate_set_similarity(Range(primes1), Range(primes2))
             ratio_sim ==
                 RSub(One, RMin(One, Rat(Abs(Len(primes1) - Len(primes2)),
                                         IMax(Len(primes1), Len(primes2)))))
             max_primes == IMin(5, IMin(Len(primes1), Len(primes2)))
             product1 == ProductOf(primes1, max_primes)
             product2 == ProductOf(primes2, max_primes)
             product_sim ==
                 IF product1 = product2 THEN One
                 ELSE IF product1 = 0 \/ product2 = 0 THEN Zero
                 ELSE Rat(IMin(product1, product2), IMax(product1, product2))
             final_sim ==
                 RAdd(RAdd(RMul(Rat(1, 2), jaccard_sim), RMul(Rat(3, 10), ratio_sim)),
                      RMul(Rat(1, 5), product_sim))
         IN  RMin(One, RMax(Zero, final_sim))

(***************************************************************************)
(* The scorer.  jitter is the value random.uniform(-0.001, 0.001) returns  *)
(* in this call.                                                           *)
(***************************************************************************)
WeightHash == 10

WeightBlocks == 2

WeightInstructions == 2

WeightEdges == Rat(3, 2)

WeightHistogram == 8

WeightStrings == 7

WeightStringsStrong == 12

WeightCallgraph == 5

WeightControlFlow == 4

WeightConstants == 3

WeightPrimes == 6

WeightName == 1

ConstLimit == 65536

StrongStrings == Rat(4, 5)

\* One category's effect: whether it applies, and what it adds to score and
\* to total_weight (nothing when it does not apply).
Category(applies, weight, sim) ==
    IF applies THEN <<TRUE, RMul(weight, sim), weight>> ELSE <<FALSE, Zero, Zero>>

\* The string category: the weight is raised when str_sim > 0.8.
StringCategory(applies, str_sim) ==
    Category(applies,
             FromInt(IF RGreater(str_sim, StrongStrings)
                     THEN WeightStringsStrong ELSE WeightStrings),
             str_sim)

\* The constants category, over the constants below ConstLimit.
ConstCategory(given, const1, const2) ==
    Category(given /\ (const1 # {} \/ const2 # {}), FromInt(WeightConstants),
             _calculate_set_similarity(const1, const2))

\* A name category that is never skipped.
NameCategoryAlways(name1, name2) ==
    Category(TRUE, FromInt(WeightName), IF name1 = name2 THEN One ELSE Zero)

\* The name category, over the lower-cased names without their prefixes.
NameCategory(name1, name2) ==
    Category(~(StartsWith(name1, HexPrefix) /\ StartsWith(name2, HexPrefix)),
             FromInt(WeightName), IF name1 = name2 THEN One ELSE Zero)

\* The categories in the order the scorer goes through them.
Categories(func1, func2) ==
    << Category(TRUE, FromInt(WeightHash),
                IF func1.function_hash = func2.function_hash THEN One ELSE Zero),
       Category(func1.basic_block_count > 0 /\ func2.basic_block_count > 0,
                FromInt(WeightBlocks),
                RatioSim(func1.basic_block_count, func2.basic_block_count)),
       Category(func1.instruction_count > 0 /\ func2.instruction_count > 0,
                FromInt(WeightInstructions),
                RatioSim(func1.instruction_count, func2.instruction_count)),
       Category(func1.edge_count > 0 /\ func2.edge_count > 0, WeightEdges,
                RatioSim(func1.edge_count, func2.edge_count)),
       Category(DOMAIN func1.mnemonic_hist # {} /\ DOMAIN func2.mnemonic_hist # {},
                FromInt(WeightHistogram),
                _calculate_histogram_similarity(func1.mnemonic_hist, func2.mnemonic_hist)),
       StringCategory(func1.string_refs # <<>> /\ func2.string_refs # <<>>,
                      _calculate_set_similarity(Range(func1.string_refs),
                                                Range(func2.string_refs))),
       Category(func1.callgraph.call_count > 0 \/ func2.callgraph.call_count > 0,
                FromInt(WeightCallgraph),
                RatioSim(func1.callgraph.call_count, func2.callgraph.call_count)),
       Category(func1.callgraph.call_count > 0 \/ func2.callgraph.call_count > 0,
                FromInt(WeightCallgraph),
                RatioSim(func1.callgraph.caller_count, func2.callgraph.caller_count)),
       Category(func1.control_flow.node_count > 0 /\ func2.control_flow.node_count > 0,
                FromInt(WeightControlFlow),
                RatioSim(func1.control_flow.node_count, func2.control_flow.node_count)),
       Category(TRUE, FromInt(WeightControlFlow),
                DensitySim(func1.control_flow.density, func2.control_flow.density)),
       Category(TRUE, FromInt(WeightControlFlow),
                IF func1.control_flow.is_connected = func2.control_flow.is_connected
                THEN One ELSE Zero),
       ConstCategory(func1.numeric_consts # <<>> /\ func2.numeric_consts # <<>>,
                     {x \in Range(func1.numeric_consts) : x < ConstLimit},
                     {x \in Range(func2.numeric_consts) : x < ConstLimit}),
       Category(func1.function_primes # <<>> /\ func2.function_primes # <<>>,
                FromInt(WeightPrimes),
                _calculate_prime_similarity(func1.function_primes, func2.function_primes)),
       NameCategory(StripPrefixes(Lower(func1.name), 1),
                    StripPrefixes(Lower(func2.name), 1)) >>

\* The sum of component c (2: weight * sim, 3: weight) of the first k categories.
RECURSIVE SumOf(_, _, _)
SumOf(cats, c, k) == IF k = 0 THEN Zero ELSE RAdd(SumOf(cats, c, k - 1), cats[k][c])

\* final_score = score / total_weight if total_weight > 0 else 0.0
Normalize(score, total_weight) ==
    IF RGreater(total_weight, Zero) THEN RDiv(score, total_weight) ELSE Zero

\* technique_scores[label] = value, when the category applies.
Entry(applies, label, value) == IF applies THEN << <<label, value>> >> ELSE <<>>

\* The dictionary technique_scores, in insertion order.
technique_scores(cats) ==
    Entry(TRUE, "Hash Match", cats[1][2])
    \o Entry(cats[2][1], "Basic Block Count", cats[2][2])
    \o Entry(cats[3][1], "Instruction Count", cats[3][2])
    \o Entry(cats[4][1], "Edge Count", cats[4][2])
    \o Entry(cats[5][1], "Mnemonic Histogram", cats[5][2])
    \o Entry(cats[6][1], "String References", cats[6][2])
    \o Entry(TRUE, "Callgraph", RAdd(cats[7][2], cats[8][2]))
    \o Entry(TRUE, "Control Flow", RAdd(RAdd(cats[9][2], cats[10][2]), cats[11][2]))
    \o Entry(cats[12][1], "Numeric Constants", cats[12][2])
    \o Entry(cats[13][1], "Prime Features", cats[13][2])
    \o Entry(cats[14][1], "Name Similarity", cats[14][2])

RECURSIVE MaxValue(_, _)
MaxValue(ts, k) ==
    IF k = 1 THEN ts[1][2] ELSE RMax(MaxValue(ts, k - 1), ts[k][2])

\* max(technique_scores, key=technique_scores.get): the first key, in
\* insertion order, whose value is max_score.
FirstMaxKey(ts, max_score) ==
    ts[CHOOSE k \in 1..Len(ts) :
           /\ ts[k][2] = max_score
           /\ \A h \in 1..(k - 1) : ts[h][2] # max_score][1]

\* A label that is the highest contribution's also when the hashes are equal.
DominantWithoutOverride(ts) ==
    IF ts = <<>> THEN "Mixed"
    ELSE IF ~RGreater(MaxValue(ts, Len(ts)), Zero) THEN "Mixed"
    ELSE FirstMaxKey(ts, MaxValue(ts, Len(ts)))

DominantTechnique(ts) ==
    IF ts = <<>> THEN "Mixed"
    ELSE IF ~RGreater(MaxValue(ts, Len(ts)), Zero) THEN "Mixed"
    ELSE IF RLeq(FromInt(WeightHash), ts[1][2]) THEN "Hash Match"
    ELSE FirstMaxKey(ts, MaxValue(ts, Len(ts)))

\* A scorer that returns final_score + jitter as it is.
Unclamped(x) == x

Clamp(x) == RMax(Zero, RMin(One, x))

\* What the scorer returns for the categories cats and the jitter drawn.
Outcome(cats, jitter) ==
    << Clamp(RAdd(Normalize(SumOf(cats, 2, Len(cats)), SumOf(cats, 3, Len(cats))),
                  jitter)),
       DominantTechnique(technique_scores(cats)) >>

\* A name that is not a string (None): a name is a sequence of characters,
\* this one holds a word.
NoName == <<"None">>

\* The scorer raises: func["name"].lower() when the name is not a string.
Faults(func1, func2) == func1.name = NoName \/ func2.name = NoName

\* A scorer whose exception handler returns the highest score.
FaultScoresOne == <<One, "Error">>

\* What the exception handler returns.
FaultOutcome == <<Zero, "Error">>

_calculate_similarity_original(func1, func2, jitter) ==
    IF Faults(func1, func2) THEN FaultOutcome
    ELSE Outcome(Categories(func1, func2), jitter)

\* The conversion of a feature record to the scorer's format.
OriginalFormat(feat) ==
    [function_hash |-> feat.structural_hash,
     basic_block_count |-> feat.basic_block_count,
     instruction_count |-> feat.instruction_count,
     edge_count |-> feat.basic_block_count,
     mnemonic_hist |-> <<>>,
     string_refs |-> <<>>,
     callgraph |-> [call_count |-> 0, caller_count |-> 0],
     control_flow |-> [node_count |-> feat.basic_block_count,
                       density |-> Rat(1, 2), is_connected |-> TRUE],
     numeric_consts |-> <<>>,
     function_primes |-> <<>>,
     name |-> feat.name]

_calculate_similarity(feat1, feat2, jitter) ==
    _calculate_similarity_original(OriginalFormat(feat1), OriginalFormat(feat2), jitter)[1]

(***************************************************************************)
(* The host's view of a function (what the extractor reads of a Binary     *)
(* Ninja Function), and feature extraction.                                *)
(***************************************************************************)
Digits == <<"0", "1", "2", "3", "4", "5", "6", "7", "8", "9">>

\* str(n) for an integer n >= 0.
RECURSIVE Str(_)
Str(n) == IF n < 10 THEN <<Digits[n + 1]>> ELSE Str(n \div 10) \o <<Digits[(n % 10) + 1]>>

Alphabet ==
    Digits \o <<"a", "b", "c", "d", "e", "f", "i", "m", "n", "o", "p", "s", "u",
                "v", "x", "z", "_", ".", "*">>

Ord(c) == CHOOSE k \in 1..Len(Alphabet) : Alphabet[k] = c

\* hash(s) & 0xFFFFFFFF.  CPython's string hash is fixed within one process;
\* a polynomial hash stands for it, with values in the range the mask leaves
\* unchanged.
RECURSIVE MaskedHash(_, _)
MaskedHash(s, k) ==
    IF k = 0 THEN 7 ELSE (MaskedHash(s, k - 1) * 31 + Ord(s[k])) % 65521

\* random.seed(seed); random.randint(1, 1000): a fixed function of the seed.
SeededRandint(seed) == 1 + ((seed * 37 + 11) % 1000)

\* What the first k basic blocks add to hash_data.
RECURSIVE BlockParts(_, _)
BlockParts(blocks, k) ==
    IF k = 0 THEN <<>>
    ELSE BlockParts(blocks, k - 1)
             \o Str(blocks[k].outgoing_edges) \o Str(blocks[k].length)

_calculate_structural_hash(func) ==
    IF func.raises THEN 0
    ELSE LET hash_str == Str(Len(func.basic_blocks))
                         \o BlockParts(func.basic_blocks, Len(func.basic_blocks))
                         \o Str(func.total_bytes)
         IN  MaskedHash(hash_str, Len(hash_str))

\* What the first k instructions of a block add to instructions.
RECURSIVE InstrParts(_, _)
InstrParts(instrs, k) ==
    IF k = 0 THEN <<>>
    ELSE InstrParts(instrs, k - 1) \o instrs[k].operation \o Str(instrs[k].length)

\* What the instructions of the first k basic blocks add to it.
RECURSIVE BlockInstrParts(_, _)
BlockInstrParts(blocks, k) ==
    IF k = 0 THEN <<>>
    ELSE BlockInstrParts(blocks, k - 1)
             \o InstrParts(blocks[k].instructions, Len(blocks[k].instructions))

_calculate_instruction_hash(func) ==
    IF func.raises THEN 0
    ELSE LET instructions == BlockInstrParts(func.basic_blocks, Len(func.basic_blocks))
                             \o Str(func.start)
                             \o Str(SeededRandint(func.start))
         IN  MaskedHash(instructions, Len(instructions))

\* The instructions one basic block adds to instruction_count.
BlockInstructions(bb) ==
    IF bb.raises THEN 3
    ELSE IF bb.instruction_count > 0 THEN bb.instruction_count
    ELSE Len(bb.instructions)

RECURSIVE CountInstructions(_, _)
CountInstructions(blocks, k) ==
    IF k = 0 THEN 0 ELSE CountInstructions(blocks, k - 1) + BlockInstructions(blocks[k])

\* A feature record that holds the sizes and counts as they were counted.
FeaturesAsCounted(func) ==
    LET function_size ==
            IF func.raises THEN 1
            ELSE IF func.total_bytes = 0
            THEN (IF func.highest_address > func.lowest_address
                  THEN func.highest_address - func.lowest_address ELSE 1)
            ELSE func.total_bytes
        basic_block_count ==
            IF func.raises \/ Len(func.basic_blocks) = 0 THEN 1
            ELSE Len(func.basic_blocks)
        instruction_count ==
            IF func.raises \/ Len(func.basic_blocks) = 0 THEN 1
            ELSE CountInstructions(func.basic_blocks, Len(func.basic_blocks))
    IN  [size |-> function_size,
         basic_block_count |-> basic_block_count,
         instruction_count |-> instruction_count,
         name |-> func.name,
         address |-> func.start,
         structural_hash |-> _calculate_structural_hash(func),
         instruction_hash |-> _calculate_instruction_hash(func)]

\* The feature record of one function (one iteration of the loop of
\* _extract_binary_features).
FeaturesOf(func) ==
    LET function_size ==
            IF func.raises THEN 1
            ELSE IF func.total_bytes = 0
            THEN (IF func.highest_address > func.lowest_address
                  THEN func.highest_address - func.lowest_address ELSE 1)
            ELSE func.total_bytes
        basic_block_count ==
            IF func.raises \/ Len(func.basic_blocks) = 0 THEN 1
            ELSE Len(func.basic_blocks)
        instruction_count ==
            IF func.raises \/ Len(func.basic_blocks) = 0 THEN 1
            ELSE CountInstructions(func.basic_blocks, Len(func.basic_blocks))
    IN  [size |-> IF function_size > 0 THEN function_size ELSE 1,
         basic_block_count |-> IF basic_block_count > 0 THEN basic_block_count ELSE 1,
         instruction_count |-> IF instruction_count > 0 THEN instruction_count ELSE 1,
         name |-> func.name,
         address |-> func.start,
         structural_hash |-> _calculate_structural_hash(func),
         instruction_hash |-> _calculate_instruction_hash(func)]

(***************************************************************************)
(* Ordered dictionaries (Python dict): a sequence of [key, value] entries  *)
(* in insertion order; assigning to a present key keeps its position.      *)
(***************************************************************************)
Keys(d) == {d[k].key : k \in DOMAIN d}

DictGet(d, key) == d[CHOOSE k \in DOMAIN d : d[k].key = key].value

DictPut(d, key, value) ==
    IF key \in Keys(d)
    THEN [k \in DOMAIN d |-> IF d[k].key = key THEN [key |-> key, value |-> value] ELSE d[k]]
    ELSE Append(d, [key |-> key, value |-> value])

(***************************************************************************)
(* The inputs: the functions the two binary views hold.                    *)
(***************************************************************************)
MaxFuncs == 2

Instr == [operation |-> <<"m", "o", "v">>, length |-> 4]

Blk(count, listed, edges) ==
    [instruction_count |-> count, instructions |-> [k \in 1..listed |-> Instr],
     length |-> 4 * listed, outgoing_edges |-> edges, raises |-> FALSE]

NameMain == <<"m", "a", "i", "n">>

NamePlaceholder == <<"s", "u", "b", "_", "*">>

NameHex == <<"s", "u", "b", "_", "0", "x", "1">>

\* The shapes a function is drawn from: two builds of main (the same blocks
\* but for the last one), a function without blocks, a function whose
\* analysis raises, and a function named after its address.
ShapeMain1 ==
    [name |-> NameMain, total_bytes |-> 24, extent |-> 24, raises |-> FALSE,
     basic_blocks |-> <<Blk(2, 2, 2), Blk(2, 2, 1), Blk(2, 2, 0)>>]

ShapeMain2 ==
    [name |-> NameMain, total_bytes |-> 28, extent |-> 28, raises |-> FALSE,
     basic_blocks |-> <<Blk(2, 2, 2), Blk(2, 2, 1), Blk(0, 3, 0)>>]

ShapeStub ==
    [name |-> NamePlaceholder, total_bytes |-> 0, extent |-> 0, raises |-> FALSE,
     basic_blocks |-> <<>>]

ShapeBad ==
    [name |-> NamePlaceholder, total_bytes |-> 16, extent |-> 16, raises |-> TRUE,
     basic_blocks |-> <<>>]

ShapeHex ==
    [name |-> NameHex, total_bytes |-> 24, extent |-> 24, raises |-> FALSE,
     basic_blocks |-> <<Blk(2, 2, 2), Blk(2, 2, 1), Blk(2, 2, 0)>>]

\* More shapes: a function of ten blocks of one instruction, a function
\* whose size the host gives as 0, with a block whose instruction count
\* cannot be read and a block without instructions, a function whose only
\* block has no instructions, and main without a name.
NameUnzip == <<"u", "n", "z", "i", "p">>

ShapeBig ==
    [name |-> NameUnzip, total_bytes |-> 40, extent |-> 40, raises |-> FALSE,
     basic_blocks |-> [k \in 1..10 |-> Blk(1, 0, 1)]]

ShapeOdd ==
    [name |-> NameHex, total_bytes |-> 0, extent |-> 8, raises |-> FALSE,
     basic_blocks |-> <<[Blk(0, 0, 1) EXCEPT !.raises = TRUE], Blk(0, 0, 0)>>]

ShapeHollow ==
    [name |-> NameHex, total_bytes |-> 0, extent |-> 0, raises |-> FALSE,
     basic_blocks |-> <<Blk(0, 0, 0)>>]

ShapeNameless == [ShapeMain1 EXCEPT !.name = NoName]

\* A function whose name is written with a capital letter.
ShapeCapital == [ShapeMain1 EXCEPT !.name = <<"M", "a", "i", "n">>]

\* The functions of the first and of the second binary.
ShapesA == {ShapeMain1, ShapeHex, ShapeBad}

ShapesB == {ShapeMain1, ShapeMain2, ShapeBad}

Place(shape, start) ==
    [name |-> shape.name, start |-> start, total_bytes |-> shape.total_bytes,
     lowest_address |-> start, highest_address |-> start + shape.extent,
     basic_blocks |-> shape.basic_blocks, raises |-> shape.raises]

\* The binary views of up to MaxFuncs functions of the given shapes, the
\* first of which starts at base.
Views(shapes, base) ==
    UNION { { [k \in 1..n |-> Place(sh[k], base + 32 * (k - 1))] :
                sh \in [1..n -> shapes] } : n \in 0..MaxFuncs }

\* The second binary may hold a function that starts at address 0.
BasesA == {4096}

BasesB == {0, 8192}

\* random.uniform(-0.001, 0.001).  The generator's state when the scorer is
\* called is not part of the model (random.seed in _calculate_instruction_hash
\* sets it during extraction, every draw advances it): a draw is any of the
\* values below, the two ends of the interval.
JitterBound == Rat(1, 1000)

Jitters == {RSub(Zero, JitterBound), JitterBound}

\* Python's None, for best_match (addresses are >= 0).
None == -1

\* A test that takes every address, 0 too, for a candidate.
IsNotNone(x) == x # None

Truthy(x) == x # None /\ x # 0

\* None in the place of a feature mapping: a mapping is a sequence of
\* entries, this one holds an entry whose key is None.
NullMapping == <<[key |-> None, value |-> None]>>

IsNull(features) == features # <<>> /\ features[1].key = None

(***************************************************************************)
(* The state of a BinaryDiffTask.                                          *)
(***************************************************************************)
VARIABLES
    bv1, bv2,          \* the functions of the two binary views, in order
    all_features,      \* the dictionary _extract_binary_features is filling
    features1, features2,
    matched_funcs,     \* address in A -> (address in B, score)
    used_funcs2,       \* addresses in B already matched
    results,           \* the FunctionMatch objects run() leaves to the caller
    cancelled,         \* the task's cancellation flag
    pc, at,            \* where run() is, and where in the outer iteration
    i,                 \* position of the loop over the functions of A
    best_match, best_score,
    commits,           \* history: every commit, with the phase that made it
    scan_log,          \* history: the scores compared in the current scan
    cancel_at,         \* history: where run() was when the flag was set
    probe,             \* the scorer called on its own (SpecScorer)
    _debug_count       \* self._debug_count (0: the attribute is not set)

vars == <<bv1, bv2, all_features, features1, features2, matched_funcs, used_funcs2,
          results, cancelled, pc, at, i, best_match, best_score, commits,
          scan_log, cancel_at, probe, _debug_count>>

NoProbe == [feat1 |-> <<>>, feat2 |-> <<>>, func1 |-> <<>>, func2 |-> <<>>, calls |-> <<>>]

Init ==
    /\ bv1 \in UNION {Views(ShapesA, b) : b \in BasesA}
    /\ bv2 \in UNION {Views(ShapesB, b) : b \in BasesB}
    /\ all_features = <<>>
    /\ features1 = <<>>
    /\ features2 = <<>>
    /\ matched_funcs = <<>>
    /\ used_funcs2 = {}
    /\ results = <<>>
    /\ cancelled = FALSE
    /\ pc = "extract1"
    /\ at = "head"
    /\ i = 1
    /\ best_match = None
    /\ best_score = Zero
    /\ commits = <<>>
    /\ scan_log = <<>>
    /\ cancel_at = <<>>
    /\ probe = NoProbe
    /\ _debug_count = 0

matcher_vars ==
    <<matched_funcs, used_funcs2, best_match, best_score, commits, scan_log, at,
      _debug_count>>

(***************************************************************************)
(* run(): feature extraction.                                              *)
(***************************************************************************)
\* One pass through the head and body of the loop of _extract_binary_features.
ExtractStep(bv, next) ==
    IF i > Len(bv) \/ cancelled
    THEN /\ pc' = next
         /\ UNCHANGED <<all_features, i>>
    ELSE /\ all_features' = DictPut(all_features, bv[i].start, FeaturesOf(bv[i]))
         /\ i' = i + 1
         /\ pc' = pc

Extract1 ==
    /\ pc = "extract1"
    /\ ExtractStep(bv1, "check1")
    /\ UNCHANGED <<bv1, bv2, features1, features2, results, cancelled, cancel_at,
                   probe, matcher_vars>>

\* self.features1 = ...; if self.cancelled: return
Check1 ==
    /\ pc = "check1"
    /\ features1' = all_features
    /\ all_features' = <<>>
    /\ i' = 1
    /\ pc' = IF cancelled THEN "done" ELSE "extract2"
    /\ UNCHANGED <<bv1, bv2, features2, results, cancelled, cancel_at, probe, matcher_vars>>

Extract2 ==
    /\ pc = "extract2"
    /\ ExtractStep(bv2, "check2")
    /\ UNCHANGED <<bv1, bv2, features1, features2, results, cancelled, cancel_at,
                   probe, matcher_vars>>

\* self.features2 = ...; if self.cancelled: return; then _match_functions
\* starts with an empty matched_funcs and an empty used_funcs2.
Check2 ==
    /\ pc = "check2"
    /\ features2' = all_features
    /\ all_features' = <<>>
    /\ i' = 1
    /\ pc' = IF cancelled THEN "done" ELSE "phase1"
    /\ matched_funcs' = <<>>
    /\ used_funcs2' = {}
    /\ UNCHANGED <<bv1, bv2, features1, results, cancelled, cancel_at, probe,
                   best_match, best_score, commits, scan_log, at, _debug_count>>

(***************************************************************************)
(* _match_functions: the three phases.  An outer iteration is two steps:   *)
(* its head (the checks on addr1 and on the flag, which another thread may *)
(* set in between) and its body (the inner loop over features2 and the     *)
(* commit, which read nothing another thread writes).                      *)
(***************************************************************************)
Phase1Bonus == Rat(1, 10)

Phase2Bonus == Rat(1, 20)

Phase1Threshold == Rat(3, 5)

Phase2Threshold == Rat(1, 2)

\* A Phase 3 that commits above 0.25.
Phase3ThresholdLow == Rat(1, 4)

Phase3Threshold == Rat(2, 5)

\* A Phase 1 filter that takes two hashes of 0 for a match.
HashCandidateWithZero(feat1, feat2) == feat1.structural_hash = feat2.structural_hash

\* The candidate filter of each phase.
HashCandidate(feat1, feat2) ==
    /\ feat1.structural_hash = feat2.structural_hash
    /\ feat1.structural_hash # 0

NameCandidate(feat1, feat2) ==
    /\ feat1.name = feat2.name
    /\ feat1.name # NamePlaceholder

\* A matcher that never looks at used_funcs2.
ConsumedNever(addr2) == FALSE

Consumed(addr2) == addr2 \in used_funcs2

\* score = min(1.0, score + bonus)
Boost(score, bonus) == RMin(One, RAdd(score, bonus))

\* A candidate that takes the place of the best so far with an equal score.
BetterOrEqual(score, best) == RLeq(best, score) /\ RGreater(score, Zero)

\* if score > best_score: ...
Better(score, best) == RGreater(score, best)

\* The condition under which each phase commits its best candidate.
Commit1(match, score) == Truthy(match) /\ RGreater(score, Phase1Threshold)

Commit2(match, score) == Truthy(match) /\ RGreater(score, Phase2Threshold)

Commit3(match, score) == Truthy(match) /\ RGreater(score, Phase3Threshold)

\* A Phase 1 that does not look at the flag.
Break1Never == FALSE

\* The exits of the outer loops: Phase 1 breaks on the flag, Phases 2 and 3
\* (the same test in both) skip the A-function when it is matched or the
\* flag is set.
Break1 == cancelled

\* Outer loops that test only one of the two conditions.
SkipOnCancelOnly(addr1) == cancelled

SkipMatchedOnly(addr1) == addr1 \in Keys(matched_funcs)

Skip(addr1) == addr1 \in Keys(matched_funcs) \/ cancelled

\* The candidate filter, the score compared and the replacement test of the
\* inner loop of each phase.
Candidate(phase, feat1, feat2) ==
    CASE phase = 1 -> HashCandidate(feat1, feat2)
      [] phase = 2 -> NameCandidate(feat1, feat2)
      [] phase = 3 -> TRUE

Bonus(phase) == IF phase = 1 THEN Phase1Bonus ELSE Phase2Bonus

Boosted(phase, score) == IF phase = 3 THEN score ELSE Boost(score, Bonus(phase))

Takes(phase, score, best) ==
    /\ Better(score, best)
    /\ phase = 3 => RGreater(score, Phase3Threshold)

\* The entries of features2 the inner loop makes a scoring call for.
ScoredEntries(phase, feat1) ==
    {k \in 1..Len(features2) :
        ~Consumed(features2[k].key) /\ Candidate(phase, feat1, features2[k].value)}

\* The comparison of a candidate's score with the best so far.  The log keeps
\* what the scorer returned (similarity) and the score compared.
Compare(phase, addr2, score, similarity, prev) ==
    [best_match |-> IF Takes(phase, score, prev.best_score) THEN addr2
                    ELSE prev.best_match,
     best_score |-> IF Takes(phase, score, prev.best_score) THEN score
                    ELSE prev.best_score,
     log |-> Append(prev.log,
                    [addr2 |-> addr2, similarity |-> similarity, score |-> score])]

\* score = self._calculate_similarity(feat1, feat2), the bonus of the phase,
\* and the comparison.
Scored(phase, addr2, similarity, prev) ==
    Compare(phase, addr2, Boosted(phase, similarity), similarity, prev)

\* One iteration of the inner loop, for entry k of features2, after the
\* iterations that left prev.
Visit(phase, feat1, jitters, k, prev) ==
    IF Consumed(features2[k].key) \/ ~Candidate(phase, feat1, features2[k].value)
    THEN prev
    ELSE Scored(phase, features2[k].key,
                _calculate_similarity(feat1, features2[k].value, jitters[k]), prev)

\* The inner loop over the first k entries of features2, for the A-function
\* feat1: the best candidate so far and the scores compared so far.
\* jitters[n] is the jitter of the scoring call made for entry n.
RECURSIVE Scan(_, _, _, _)
Scan(phase, feat1, jitters, k) ==
    IF k = 0
    THEN [best_match |-> None, best_score |-> Zero, log |-> <<>>]
    ELSE Visit(phase, feat1, jitters, k, Scan(phase, feat1, jitters, k - 1))

Commits(phase, match, score) ==
    CASE phase = 1 -> Commit1(match, score)
      [] phase = 2 -> Commit2(match, score)
      [] phase = 3 -> Commit3(match, score)

run_vars == <<bv1, bv2, all_features, features1, features2, results, cancelled, cancel_at, probe>>

\* The first position from k on whose A-function Phases 2 and 3 do not skip
\* (Len + 1 when there is none).
RECURSIVE NextUnskipped(_)
NextUnskipped(k) ==
    IF k > Len(features1) THEN k
    ELSE IF Skip(features1[k].key) THEN NextUnskipped(k + 1)
    ELSE k

\* The head of an outer iteration: the loop ends (next), or the iteration
\* for the A-function at position n begins.
LoopHead(ends, n, next) ==
    /\ at = "head"
    /\ IF ends
       THEN /\ pc' = next
            /\ i' = 1
            /\ UNCHANGED <<at, best_match, best_score>>
       ELSE /\ pc' = pc
            /\ i' = n
            /\ at' = "scan"
            /\ best_match' = None
            /\ best_score' = Zero
    /\ scan_log' = <<>>
    /\ UNCHANGED <<run_vars, matched_funcs, used_funcs2, commits, _debug_count>>

\* The end of an outer iteration: the commit of the inner loop's best
\* candidate.
Conclude(phase, addr1, scan) ==
    /\ best_match' = scan.best_match
    /\ best_score' = scan.best_score
    /\ scan_log' = scan.log
    /\ IF Commits(phase, scan.best_match, scan.best_score)
       THEN /\ matched_funcs' = DictPut(matched_funcs, addr1,
                                        <<scan.best_match, scan.best_score>>)
            /\ used_funcs2' = used_funcs2 \cup {scan.best_match}
            /\ commits' = Append(commits,
                                 [addr1 |-> addr1, addr2 |-> scan.best_match,
                                  score |-> scan.best_score, phase |-> phase])
       ELSE UNCHANGED <<matched_funcs, used_funcs2, commits>>

\* An outer iteration that takes the function it commits out of features2.
LoopBodyPopping(phase) ==
    /\ at = "scan"
    /\ ~IsNull(features2)
    /\ \E jitters \in [ScoredEntries(phase, features1[i].value) -> Jitters] :
           Conclude(phase, features1[i].key,
                    Scan(phase, features1[i].value, jitters, Len(features2)))
    /\ _debug_count' = _debug_count + Cardinality(ScoredEntries(phase, features1[i].value))
    /\ features2' = SelectSeq(features2, LAMBDA e : e.key \notin used_funcs2')
    /\ i' = i + 1
    /\ at' = "head"
    /\ UNCHANGED <<bv1, bv2, all_features, features1, results, cancelled, cancel_at,
                   probe, pc>>

\* The body of an outer iteration: the inner loop over features2 and the
\* commit of its best candidate.  Every scoring call of the scan counts
\* itself in self._debug_count.
LoopBody(phase) ==
    /\ at = "scan"
    /\ ~IsNull(features2)
    /\ \E jitters \in [ScoredEntries(phase, features1[i].value) -> Jitters] :
           Conclude(phase, features1[i].key,
                    Scan(phase, features1[i].value, jitters, Len(features2)))
    /\ _debug_count' = _debug_count + Cardinality(ScoredEntries(phase, features1[i].value))
    /\ i' = i + 1
    /\ at' = "head"
    /\ UNCHANGED <<run_vars, pc>>

Phase1Head ==
    /\ pc = "phase1"
    /\ ~IsNull(features1)
    /\ LoopHead(i > Len(features1) \/ Break1, i, "phase2")

Phase1Body == pc = "phase1" /\ LoopBody(1)

Phase2Head ==
    /\ pc = "phase2"
    /\ LoopHead(NextUnskipped(i) > Len(features1), NextUnskipped(i), "phase3")

Phase2Body == pc = "phase2" /\ LoopBody(2)

\* A Phase 3 that starts over when it is through.
Phase3HeadAgain ==
    /\ pc = "phase3"
    /\ LoopHead(NextUnskipped(i) > Len(features1), NextUnskipped(i), "phase3")

Phase3Head ==
    /\ pc = "phase3"
    /\ LoopHead(NextUnskipped(i) > Len(features1), NextUnskipped(i), "check3")

Phase3Body == pc = "phase3" /\ LoopBody(3)

(***************************************************************************)
(* run(): after the matching pass.                                         *)
(***************************************************************************)
\* Whether bv.get_function_at(addr) returns a function (and not None).
HasFunctionAt(bv, addr) == \E k \in DOMAIN bv : bv[k].start = addr

\* bv.get_function_at(addr), when it returns a function.
get_function_at(bv, addr) == bv[CHOOSE k \in DOMAIN bv : bv[k].start = addr]

_get_match_technique(addr1, addr2) == "Structural"

StructuralBoost == Rat(1, 50)

NameBoost == Rat(3, 100)

\* The FunctionMatch run() builds for one entry of matched_funcs, or <<>>
\* when one of the two functions is not found.
ResultOf(entry) ==
    LET addr1 == entry.key
        addr2 == entry.value[1]
        score == entry.value[2]
        technique == _get_match_technique(addr1, addr2)
        confidence == IF technique = "Structural" THEN RMin(One, RAdd(score, StructuralBoost))
                      ELSE IF technique = "Name" THEN RMin(One, RAdd(score, NameBoost))
                      ELSE score
    IN  IF HasFunctionAt(bv1, addr1) /\ HasFunctionAt(bv2, addr2)
        THEN << [func1 |-> get_function_at(bv1, addr1),
                 func2 |-> get_function_at(bv2, addr2), similarity |-> score,
                 confidence |-> confidence, technique |-> technique] >>
        ELSE <<>>

RECURSIVE ResultsOf(_, _)
ResultsOf(matched, k) ==
    IF k = 0 THEN <<>> ELSE ResultsOf(matched, k - 1) \o ResultOf(matched[k])

\* if self.cancelled: return; otherwise the matches become self.results.
Check3 ==
    /\ pc = "check3"
    /\ IF cancelled
       THEN UNCHANGED results
       ELSE results' = ResultsOf(matched_funcs, Len(matched_funcs))
    /\ pc' = "done"
    /\ UNCHANGED <<bv1, bv2, all_features, features1, features2, cancelled, cancel_at,
                   probe, i, matcher_vars>>

\* The user cancels the task from another thread.
Cancel ==
    /\ pc \notin {"done", "idle", "error"}
    /\ ~cancelled
    /\ cancelled' = TRUE
    /\ cancel_at' = <<pc, at, i>>
    /\ UNCHANGED <<bv1, bv2, all_features, features1, features2, results, probe,
                   pc, i, matcher_vars>>

Next ==
    \/ Extract1 \/ Check1 \/ Extract2 \/ Check2
    \/ Phase1Head \/ Phase1Body
    \/ Phase2Head \/ Phase2Body
    \/ Phase3Head \/ Phase3Body
    \/ Check3 \/ Cancel

Spec == Init /\ [][Next]_vars

\* The variables that do not tell the place run() is at.
data_vars ==
    <<bv1, bv2, all_features, features1, features2, matched_funcs, used_funcs2,
      results, cancelled, best_match, best_score, commits, scan_log, cancel_at, probe,
      _debug_count>>

\* The thread of the task takes a step: run() has not returned, and its
\* place changes, whatever else does.  (Every step of run() changes pc, at
\* or i; the host's setting of the flag changes none of them.)
Advance ==
    /\ pc \notin {"done", "idle", "error"}
    /\ pc' \in {"extract1", "check1", "extract2", "check2", "phase1", "phase2",
                "phase3", "check3", "done"}
    /\ at' \in {"head", "scan"}
    /\ i' \in 1..(Len(bv1) + Len(bv2) + 1)
    /\ <<pc', at', i'>> # <<pc, at, i>>
    /\ (UNCHANGED data_vars \/ data_vars' # data_vars)

\* The thread of a task that was started goes on running until run() returns.
SpecLive == Init /\ [][Next]_vars /\ WF_vars(Advance)

(***************************************************************************)
(* _match_functions called by run() on mappings that are given, None       *)
(* among them.                                                             *)
(***************************************************************************)
\* The mapping _extract_binary_features returns for the first k functions
\* of a binary view when the flag is not set.
RECURSIVE Extracted(_, _)
Extracted(bv, k) ==
    IF k = 0 THEN <<>>
    ELSE DictPut(Extracted(bv, k - 1), bv[k].start, FeaturesOf(bv[k]))

\* The arguments of a call: a binary view and its mapping, or no view and None.
MatchInputs(shapes, base) ==
    {[bv |-> bv, features |-> Extracted(bv, Len(bv))] : bv \in Views(shapes, base)}
    \cup {[bv |-> <<>>, features |-> NullMapping]}

InitMatch ==
    /\ \E a \in MatchInputs(ShapesA, 4096), b \in MatchInputs(ShapesB, 8192) :
           /\ bv1 = a.bv
           /\ bv2 = b.bv
           /\ features1 = a.features
           /\ features2 = b.features
    /\ all_features = <<>>
    /\ matched_funcs = <<>>
    /\ used_funcs2 = {}
    /\ results = <<>>
    /\ cancelled = FALSE
    /\ pc = "phase1"
    /\ at = "head"
    /\ i = 1
    /\ best_match = None
    /\ best_score = Zero
    /\ commits = <<>>
    /\ scan_log = <<>>
    /\ cancel_at = <<>>
    /\ probe = NoProbe
    /\ _debug_count = 0

\* features1.items() or features2.items() raises AttributeError on None: at
\* the head of the loop of Phase 1 for features1, at the head of an inner
\* loop for features2.  The exception leaves _match_functions and run()
\* catches it: it logs the error and returns.
NullRaises ==
    /\ \/ pc = "phase1" /\ at = "head" /\ i = 1 /\ IsNull(features1)
       \/ pc \in {"phase1", "phase2", "phase3"} /\ at = "scan" /\ IsNull(features2)
    /\ pc' = "error"
    /\ UNCHANGED <<run_vars, i, matcher_vars>>

NextMatch ==
    \/ Phase1Head \/ Phase1Body
    \/ Phase2Head \/ Phase2Body
    \/ Phase3Head \/ Phase3Body
    \/ Check3 \/ Cancel \/ NullRaises

SpecMatch == InitMatch /\ [][NextMatch]_vars

(***************************************************************************)
(* Runs over binaries of the other shapes.                                 *)
(***************************************************************************)
EdgeShapesA == {ShapeMain1, ShapeBig, ShapeOdd, ShapeBad}

EdgeShapesB == {ShapeNameless, ShapeStub, ShapeHollow}

InitEdge ==
    /\ bv1 \in Views(EdgeShapesA, 4096)
    /\ bv2 \in Views(EdgeShapesB, 8192)
    /\ all_features = <<>>
    /\ features1 = <<>>
    /\ features2 = <<>>
    /\ matched_funcs = <<>>
    /\ used_funcs2 = {}
    /\ results = <<>>
    /\ cancelled = FALSE
    /\ pc = "extract1"
    /\ at = "head"
    /\ i = 1
    /\ best_match = None
    /\ best_score = Zero
    /\ commits = <<>>
    /\ scan_log = <<>>
    /\ cancel_at = <<>>
    /\ probe = NoProbe
    /\ _debug_count = 0

SpecEdge == InitEdge /\ [][Next]_vars

(***************************************************************************)
(* The scorer on its own: calls of _calculate_similarity and of            *)
(* _calculate_similarity_original on one pair of feature records.          *)
(***************************************************************************)
MaxCalls == 2

Shapes == {ShapeMain1, ShapeMain2, ShapeStub, ShapeBad, ShapeHex}

\* The feature records the extractor makes of the shapes.
FeatureRecords ==
    {FeaturesOf(Place(sh, start)) : sh \in Shapes, start \in BasesA \cup BasesB}

\* A record in the scorer's format with the optional features given, as a
\* caller of _calculate_similarity_original other than _calculate_similarity
\* passes it.
Rich(func, counts, hist, strings, calls, flow, consts, primes) ==
    [func EXCEPT !.basic_block_count = counts, !.instruction_count = 2 * counts,
                 !.edge_count = counts,
                 !.mnemonic_hist = hist, !.string_refs = strings,
                 !.callgraph = [call_count |-> calls[1], caller_count |-> calls[2]],
                 !.control_flow = [node_count |-> counts, density |-> flow[1],
                                   is_connected |-> flow[2]],
                 !.numeric_consts = consts, !.function_primes = primes]

RichMain1 ==
    Rich(OriginalFormat(FeaturesOf(Place(ShapeMain1, 4096))), 3,
         [mov |-> 3, add |-> 4], <<"a", "b", "c", "d", "e">>, <<2, 1>>,
         <<Rat(1, 4), TRUE>>, <<1, 2, 70000>>, <<2, 3, 5>>)

RichMain2 ==
    Rich(OriginalFormat(FeaturesOf(Place(ShapeMain2, 8192))), 3,
         [mov |-> 4, add |-> 3], <<"a", "b", "c", "d", "e", "f">>, <<1, 3>>,
         <<Rat(1, 2), FALSE>>, <<1, 70000>>, <<2, 3, 7>>)

\* A record without blocks, whose features have nothing in common with
\* those of RichMain1.
RichHex ==
    Rich(OriginalFormat(FeaturesOf(Place(ShapeHex, 8192))), 0,
         [xor |-> 5], <<"z">>, <<0, 0>>, <<Zero, FALSE>>, <<70000>>, <<>>)

\* The pairs of arguments the scorer is called on: a feature record for
\* _calculate_similarity, a record in the scorer's format for
\* _calculate_similarity_original.
ScorerInputs ==
    {[feat |-> f, func |-> OriginalFormat(f)] : f \in FeatureRecords}
    \cup {[feat |-> FeaturesOf(Place(ShapeMain1, 4096)), func |-> RichMain1],
          [feat |-> FeaturesOf(Place(ShapeMain2, 8192)), func |-> RichMain2],
          [feat |-> FeaturesOf(Place(ShapeHex, 8192)), func |-> RichHex],
          [feat |-> FeaturesOf(Place(ShapeNameless, 8192)),
           func |-> OriginalFormat(FeaturesOf(Place(ShapeNameless, 8192)))],
          [feat |-> FeaturesOf(Place(ShapeCapital, 8192)),
           func |-> OriginalFormat(FeaturesOf(Place(ShapeCapital, 8192)))]}

InitScorer ==
    /\ \E a, b \in ScorerInputs :
           probe = [feat1 |-> a.feat, feat2 |-> b.feat, func1 |-> a.func,
                    func2 |-> b.func, calls |-> <<>>]
    /\ bv1 = <<>>
    /\ bv2 = <<>>
    /\ all_features = <<>>
    /\ features1 = <<>>
    /\ features2 = <<>>
    /\ matched_funcs = <<>>
    /\ used_funcs2 = {}
    /\ results = <<>>
    /\ cancelled = FALSE
    /\ pc = "idle"
    /\ at = "head"
    /\ i = 1
    /\ best_match = None
    /\ best_score = Zero
    /\ commits = <<>>
    /\ scan_log = <<>>
    /\ cancel_at = <<>>
    /\ _debug_count = 0

\* The record of one call: what was called, the jitter drawn, what it returned.
Call(via, jitter, similarity, technique) ==
    [via |-> via, jitter |-> jitter, similarity |-> similarity, technique |-> technique]

Returned(via, jitter, outcome) == Call(via, jitter, outcome[1], outcome[2])

Record(call) ==
    /\ probe' = [probe EXCEPT !.calls = Append(@, call)]
    /\ UNCHANGED <<bv1, bv2, all_features, features1, features2, matched_funcs,
                   used_funcs2, results, cancelled, pc, at, i, best_match,
                   best_score, commits, scan_log, cancel_at>>

CallSimilarity ==
    /\ pc = "idle"
    /\ Len(probe.calls) < MaxCalls
    /\ _debug_count' = _debug_count + 1
    /\ \E jitter \in Jitters :
           Record(Call("features", jitter,
                       _calculate_similarity(probe.feat1, probe.feat2, jitter), ""))

CallOriginal ==
    /\ pc = "idle"
    /\ Len(probe.calls) < MaxCalls
    /\ UNCHANGED _debug_count
    /\ \E jitter \in Jitters :
           Record(Returned("original", jitter,
                           _calculate_similarity_original(probe.func1, probe.func2,
                                                          jitter)))

\* The same call with the two arguments exchanged.
CallSwapped ==
    /\ pc = "idle"
    /\ Len(probe.calls) < MaxCalls
    /\ UNCHANGED _debug_count
    /\ \E jitter \in Jitters :
           Record(Returned("swapped", jitter,
                           _calculate_similarity_original(probe.func2, probe.func1,
                                                          jitter)))

\* The sub-similarities called on their own, on the string references and
\* on the histograms of the two records.
CallSetSimilarity ==
    /\ pc = "idle"
    /\ Len(probe.calls) < MaxCalls
    /\ UNCHANGED _debug_count
    /\ Record(Call("set", Zero,
                   _calculate_set_similarity(Range(probe.func1.string_refs),
                                             Range(probe.func2.string_refs)), ""))

CallHistogramSimilarity ==
    /\ pc = "idle"
    /\ Len(probe.calls) < MaxCalls
    /\ UNCHANGED _debug_count
    /\ Record(Call("histogram", Zero,
                   _calculate_histogram_similarity(probe.func1.mnemonic_hist,
                                                   probe.func2.mnemonic_hist), ""))

NextScorer ==
    \/ CallSimilarity \/ CallOriginal \/ CallSwapped
    \/ CallSetSimilarity \/ CallHistogramSimilarity

SpecScorer == InitScorer /\ [][NextScorer]_vars

\* The feature records of the shapes, and of the same shapes with four
\* more bytes.
VariantRecords ==
    FeatureRecords
    \cup {FeaturesOf(Place([sh EXCEPT !.total_bytes = @ + 4], 8192)) : sh \in Shapes}

\* Two feature records that differ at most in size, address and
\* instruction_hash.
SameButPlace(feat1, feat2) ==
    [feat1 EXCEPT !.size = 0, !.address = 0, !.instruction_hash = 0]
        = [feat2 EXCEPT !.size = 0, !.address = 0, !.instruction_hash = 0]

\* _calculate_similarity called with, for its first argument, another record
\* of the same function: one that differs from probe.feat1 in its size, its
\* address or its instruction_hash.
CallVariant ==
    /\ pc = "idle"
    /\ Len(probe.calls) < MaxCalls
    /\ _debug_count' = _debug_count + 1
    /\ \E feat \in VariantRecords :
           /\ SameButPlace(feat, probe.feat1)
           /\ feat # probe.feat1
           /\ \E jitter \in Jitters :
                  Record(Call("variant", jitter,
                              _calculate_similarity(feat, probe.feat2, jitter), ""))

NextVariant == NextScorer \/ CallVariant

SpecVariant == InitScorer /\ [][NextVariant]_vars

\* A run over binaries of the other shapes, or the scorer called on its own.
SpecEdgeAll == (InitEdge \/ InitScorer) /\ [][Next \/ NextScorer]_vars

\* Either of the two: a run of the task, or the scorer called on its own.
SpecAll == (Init \/ InitScorer) /\ [][Next \/ NextScorer]_vars

(***************************************************************************)
(* Properties of the matching pass.  In a state that follows the body of   *)
(* an outer iteration (JustScanned), scan_log holds the scores that        *)
(* iteration compared and features1[i - 1] is the A-function it was for.   *)
(***************************************************************************)
PhasePc(phase) ==
    CASE phase = 1 -> "phase1" [] phase = 2 -> "phase2" [] phase = 3 -> "phase3"

JustScanned(phase) == pc = PhasePc(phase) /\ at = "head" /\ i > 1

\* The iteration just made committed a match in this phase.
CommittedNow(phase) ==
    /\ commits # <<>>
    /\ commits[Len(commits)].addr1 = features1[i - 1].key
    /\ commits[Len(commits)].phase = phase

\* The commits made before the iteration just made.
Earlier(phase) ==
    IF CommittedNow(phase) THEN SubSeq(commits, 1, Len(commits) - 1) ELSE commits

Targets(cs) == {cs[c].addr2 : c \in DOMAIN cs}

Sources(cs) == {cs[c].addr1 : c \in DOMAIN cs}

Logged == {scan_log[k].addr2 : k \in DOMAIN scan_log}

InUnit(x) == RLeq(Zero, x) /\ RLeq(x, One)

\* C1: no B-address is the target of two A-addresses, and a B-function
\* committed earlier is not scored as a candidate again, in the phase that
\* committed it or in a later one.
C1_PartialBijection ==
    /\ \A m, n \in DOMAIN matched_funcs :
           matched_funcs[m].value[1] = matched_funcs[n].value[1] => m = n
    /\ \A phase \in 1..3 :
           JustScanned(phase) => Logged \cap Targets(Earlier(phase)) = {}

\* A second A-function was scanned in Phase 1 while a B-function with its
\* hash was already taken, and both A-functions are matched.
C1_Witness ==
    /\ JustScanned(1)
    /\ Len(matched_funcs) = 2
    /\ \E k \in DOMAIN features2 :
           /\ features2[k].key \in Targets(Earlier(1))
           /\ HashCandidate(features1[i - 1].value, features2[k].value)
           /\ features2[k].key \notin Logged

\* C2: every commit made so far is still in matched_funcs as it was made,
\* each A-address was committed at most once, and an A-function that is
\* scanned in Phase 2 or 3 has no match.
C2_MatchesImmutable ==
    /\ \A c \in DOMAIN commits :
           /\ commits[c].addr1 \in Keys(matched_funcs)
           /\ DictGet(matched_funcs, commits[c].addr1)
                  = <<commits[c].addr2, commits[c].score>>
    /\ \A c, d \in DOMAIN commits : commits[c].addr1 = commits[d].addr1 => c = d
    /\ \A m, n \in DOMAIN matched_funcs :
           matched_funcs[m].key = matched_funcs[n].key => m = n
    /\ Len(matched_funcs) = Len(commits)
    /\ (pc \in {"phase2", "phase3"} /\ at = "scan")
           => features1[i].key \notin Keys(matched_funcs)

\* The run is over with a Phase 1 match and a match of a later phase, made
\* after the first, and both are in the results.
C2_Witness ==
    /\ pc = "done"
    /\ Len(commits) = 2
    /\ commits[1].phase = 1
    /\ commits[2].phase > 1
    /\ Len(results) = 2
\* The rule a phase is said to follow, in a state that follows one of its
\* outer iterations: the A-function had no match; exactly the B-functions
\* that were unconsumed and passed the phase's filter were scored, each
\* compared at min(1.0, similarity + bonus); a commit was made if and only
\* if the best of those scores is greater than the threshold, and it was
\* made to a candidate of the best score, with that score recorded.
CommitRule(phase, bonus, threshold) ==
    JustScanned(phase) =>
        /\ features1[i - 1].key \notin Sources(Earlier(phase))
        /\ \A k \in DOMAIN features2 :
               features2[k].key \in Logged
                   <=> /\ features2[k].key \notin Targets(Earlier(phase))
                       /\ Candidate(phase, features1[i - 1].value, features2[k].value)
        /\ \A k \in DOMAIN scan_log :
               scan_log[k].score = RMin(One, RAdd(scan_log[k].similarity, bonus))
        /\ CommittedNow(phase)
               <=> \E k \in DOMAIN scan_log : RGreater(scan_log[k].score, threshold)
        /\ CommittedNow(phase) =>
               /\ \E k \in DOMAIN scan_log :
                      /\ scan_log[k].addr2 = commits[Len(commits)].addr2
                      /\ scan_log[k].score = commits[Len(commits)].score
               /\ \A k \in DOMAIN scan_log :
                      RLeq(scan_log[k].score, commits[Len(commits)].score)

\* C3: Phase 1 commits a pair only among the unconsumed B-functions of the
\* same nonzero structural hash, to one of the best boosted score
\* min(1.0, similarity + 0.10), recording that score, and it commits if and
\* only if that best score is greater than 0.6.
C3_Phase1Rule == CommitRule(1, Rat(1, 10), Rat(3, 5))

\* C4: Phase 2 scans only A-functions without a match and commits a pair
\* only among the unconsumed B-functions of the same name, the name not
\* being 'sub_*', to one of the best boosted score
\* min(1.0, similarity + 0.05), and it commits if and only if that best score
\* is greater than 0.5.
C4_Phase2Rule == CommitRule(2, Rat(1, 20), Rat(1, 2))

\* C5: Phase 3 scans only A-functions without a match, scores every
\* unconsumed B-function without a bonus and commits to one of the highest
\* similarity if and only if that similarity is greater than 0.4; every
\* recorded score is greater than 0.4.
C5_Phase3Rule ==
    /\ CommitRule(3, Zero, Rat(2, 5))
    /\ \A m \in DOMAIN matched_funcs : RGreater(matched_funcs[m].value[2], Rat(2, 5))
    /\ \A r \in DOMAIN results : RGreater(results[r].similarity, Rat(2, 5))

\* The flag was set while _match_functions was running.
CancelledInMatching ==
    cancel_at # <<>> /\ cancel_at[1] \in {"phase1", "phase2", "phase3"}

\* C6: when the flag is set during the matching pass, no outer iteration
\* starts after it (a scan under way with the flag set began before the flag
\* was set), and when run() is over results holds exactly the matches
\* committed, one FunctionMatch for each entry of matched_funcs.
C6_CancelKeepsMatches ==
    /\ (cancelled /\ pc \in {"phase1", "phase2", "phase3"} /\ at = "scan")
           => cancel_at = <<pc, "scan", i>>
    /\ (pc = "done" /\ CancelledInMatching) =>
           /\ Len(results) = Len(matched_funcs)
           /\ \A m \in DOMAIN matched_funcs :
                  /\ results[m].func1.start = matched_funcs[m].key
                  /\ results[m].func2.start = matched_funcs[m].value[1]
                  /\ results[m].similarity = matched_funcs[m].value[2]

\* The flag was set after Phase 1 went through every A-function and before
\* Phase 2 looked at the first: at the head of Phase 1's loop with nothing
\* left to iterate over, or at the head of Phase 2's loop before its first
\* iteration.
CancelledAfterPhase1 ==
    \/ cancel_at = <<"phase2", "head", 1>>
    \/ /\ cancel_at # <<>>
       /\ cancel_at[1] = "phase1"
       /\ cancel_at[2] = "head"
       /\ cancel_at[3] > Len(features1)

\* C7: when the flag is set after Phase 1 has processed every A-function,
\* every commit is a Phase 1 commit, matched_funcs holds those and only
\* those, and Phases 2 and 3 make no scan: they score no pair.
C7_OnlyPhase1Matches ==
    CancelledAfterPhase1 =>
        /\ \A c \in DOMAIN commits : commits[c].phase = 1
        /\ Keys(matched_funcs) = Sources(commits)
        /\ pc \in {"phase2", "phase3"} => at = "head" /\ scan_log = <<>>

\* The run is over, cancelled after Phase 1 with one match, and an A-function
\* without a match has the name of a free B-function that is not at address
\* 0: a pair Phase 2 scores when the flag is not set.
C7_Witness ==
    /\ pc = "done"
    /\ CancelledAfterPhase1
    /\ Len(commits) = 1
    /\ \E a \in DOMAIN features1, b \in DOMAIN features2 :
           /\ features1[a].key \notin Keys(matched_funcs)
           /\ features2[b].key \notin used_funcs2
           /\ features2[b].key # 0
           /\ NameCandidate(features1[a].value, features2[b].value)

\* C9: every score the scorer returns is in [0, 1]: in a call of its own, and
\* in the matching pass, where the score compared (after the bonus of Phase 1
\* or 2) and the score recorded in a committed match are in [0, 1] too.
C9_ScoresInUnit ==
    /\ \A c \in DOMAIN probe.calls : InUnit(probe.calls[c].similarity)
    /\ \A k \in DOMAIN scan_log :
           InUnit(scan_log[k].similarity) /\ InUnit(scan_log[k].score)
    /\ \A m \in DOMAIN matched_funcs : InUnit(matched_funcs[m].value[2])

\* A match was committed at the score 1.0, for a pair the scorer gave 1.0
\* (the upper end of the clamp) with the positive jitter.
C9_Witness ==
    /\ \E phase \in 1..2 : JustScanned(phase) /\ CommittedNow(phase)
    /\ commits[Len(commits)].score = One
    /\ \E k \in DOMAIN scan_log : scan_log[k].similarity = One

\* C8: the scorer returns the same score on every call for the same pair of
\* records.
C8_SameScoreEveryCall ==
    \A m, n \in DOMAIN probe.calls :
        probe.calls[m].via = probe.calls[n].via =>
            probe.calls[m].similarity = probe.calls[n].similarity

\* C10: scoring a feature record against an identical record returns
\* exactly 1.0.
C10_Reflexive ==
    \A c \in DOMAIN probe.calls :
        \/ probe.calls[c].via = "features" /\ probe.feat1 = probe.feat2
        \/ probe.calls[c].via \in {"original", "swapped"} /\ probe.func1 = probe.func2
        => probe.calls[c].similarity = One

(***************************************************************************)
(* Properties of the scorer's categories.                                  *)
(***************************************************************************)
\* The calls of the given kind made so far.
CallsVia(via) == {c \in DOMAIN probe.calls : probe.calls[c].via = via}

\* Every category applies alike, has the same weight and adds the same to
\* the score, whichever of the two records comes first.
SameCategories(func1, func2) == Categories(func1, func2) = Categories(func2, func1)

\* C11: the score of (a, b) equals the score of (b, a), and every category's
\* sub-similarity and weighted contribution is the same with the two
\* arguments exchanged.
C11_Symmetric ==
    \A m \in CallsVia("original"), n \in CallsVia("swapped") :
        /\ probe.calls[m].similarity = probe.calls[n].similarity
        /\ SameCategories(probe.func1, probe.func2)

(***************************************************************************)
(* Properties of whole runs.                                               *)
(***************************************************************************)
\* run() has returned and the flag was never set.
Finished == pc = "done" /\ ~cancelled

\* Each binary holds one function, and the two are the same function at
\* different addresses, with a structural hash that is not 0.
OneIdenticalPair ==
    /\ Len(bv1) = 1 /\ Len(bv2) = 1
    /\ [bv1[1] EXCEPT !.start = 0, !.lowest_address = 0, !.highest_address = 0]
           = [bv2[1] EXCEPT !.start = 0, !.lowest_address = 0, !.highest_address = 0]
    /\ bv1[1].start # bv2[1].start
    /\ _calculate_structural_hash(bv1[1]) # 0

\* C12: when A and B hold one function each, identical apart from the
\* address and with the same nonzero structural hash, the run reports
\* exactly one match, of the two addresses, with a score of at least 0.95
\* and the hash-match label as its technique.
C12_IdenticalPairMatched ==
    Finished /\ OneIdenticalPair =>
        /\ Len(results) = 1
        /\ results[1].func1 = bv1[1]
        /\ results[1].func2 = bv2[1]
        /\ RLeq(Rat(95, 100), results[1].similarity)
        /\ results[1].technique = "Hash Match"

\* No B-function has the nonzero structural hash of this A-function.
NoHashTwin(feat1) ==
    \A k \in DOMAIN features2 : ~HashCandidate(feat1, features2[k].value)

\* The block counts and the instruction counts differ by at most one.
NearIdentical(feat1, feat2) ==
    /\ Abs(feat1.basic_block_count - feat2.basic_block_count) <= 1
    /\ Abs(feat1.instruction_count - feat2.instruction_count) <= 1

\* The B-functions of the name of this A-function and of nearly its counts
\* that no earlier iteration has consumed.
FreeNamesakes(phase, feat1) ==
    {k \in DOMAIN features2 :
        /\ features2[k].key \notin Targets(Earlier(phase))
        /\ features2[k].value.name = feat1.name
        /\ NearIdentical(feat1, features2[k].value)}

\* C13: an A-function for which no B-function has an equal nonzero
\* structural hash is never committed in Phase 1; and when Phase 2 scans it
\* while an unconsumed B-function has its name and nearly its counts, Phase 2
\* commits it with a recorded score greater than 0.5 and at most 1.0.
C13_NameFallback ==
    /\ \A c \in DOMAIN commits :
           commits[c].phase = 1 => ~NoHashTwin(DictGet(features1, commits[c].addr1))
    /\ ( /\ JustScanned(2)
         /\ NoHashTwin(features1[i - 1].value)
         /\ FreeNamesakes(2, features1[i - 1].value) # {} )
        => /\ CommittedNow(2)
           /\ RGreater(commits[Len(commits)].score, Rat(1, 2))
           /\ RLeq(commits[Len(commits)].score, One)

\* A ratio similarity this small counts as about 0.
AboutZero == Rat(1, 10)

\* Two feature records with nothing in common: different structural
\* hashes, different names, block counts and instruction counts so far apart
\* that their ratio similarities are about 0.
Disjoint(feat1, feat2) ==
    /\ feat1.structural_hash # feat2.structural_hash
    /\ feat1.name # feat2.name
    /\ RLeq(RatioSim(feat1.basic_block_count, feat2.basic_block_count), AboutZero)
    /\ RLeq(RatioSim(feat1.instruction_count, feat2.instruction_count), AboutZero)

\* C14: no phase commits a pair of functions whose features are disjoint,
\* and the results of a run that was not cancelled hold no such pair.
C14_DisjointUnmatched ==
    /\ \A c \in DOMAIN commits :
           ~Disjoint(DictGet(features1, commits[c].addr1),
                     DictGet(features2, commits[c].addr2))
    /\ Finished =>
           \A r \in DOMAIN results :
               ~Disjoint(FeaturesOf(results[r].func1), FeaturesOf(results[r].func2))

\* Phase 3 has just scored the function of ten blocks, alone in A, against
\* a function of one block, alone in B: the similarity is above 0, the flag
\* is not set and no phase has committed the pair.
C14_Witness ==
    /\ JustScanned(3)
    /\ ~cancelled
    /\ Len(features1) = 1 /\ Len(features2) = 1
    /\ Disjoint(features1[1].value, features2[1].value)
    /\ Len(scan_log) = 1
    /\ RGreater(scan_log[1].similarity, Rat(1, 4))
    /\ commits = <<>>

\* Scoring these two feature records raises inside the scorer.
FaultsOn(feat1, feat2) == Faults(OriginalFormat(feat1), OriginalFormat(feat2))

\* The entries of scan_log for pairs whose scoring raised, in a state that
\* follows an outer iteration.
FaultsLogged ==
    {k \in DOMAIN scan_log :
        FaultsOn(features1[i - 1].value, DictGet(features2, scan_log[k].addr2))}

\* C15: when scoring a pair raises, the scorer returns (0.0, "Error"); the
\* scan the pair is part of compares it as a pair of similarity 0 and goes
\* over every other unconsumed candidate of its phase; and no phase commits
\* the pair.
C15_FaultContained ==
    /\ \A c \in DOMAIN probe.calls :
           /\ (probe.calls[c].via \in {"original", "swapped"}
                   /\ Faults(probe.func1, probe.func2))
                  => /\ probe.calls[c].similarity = Zero
                     /\ probe.calls[c].technique = "Error"
           /\ (probe.calls[c].via = "features" /\ FaultsOn(probe.feat1, probe.feat2))
                  => probe.calls[c].similarity = Zero
    /\ \A phase \in 1..3 :
           JustScanned(phase) =>
               /\ \A k \in FaultsLogged :
                      /\ scan_log[k].similarity = Zero
                      /\ scan_log[k].score = Boosted(phase, Zero)
               /\ \A k \in DOMAIN features2 :
                      ( /\ features2[k].key \notin Targets(Earlier(phase))
                        /\ Candidate(phase, features1[i - 1].value, features2[k].value) )
                          => features2[k].key \in Logged
    /\ \A c \in DOMAIN commits :
           ~FaultsOn(DictGet(features1, commits[c].addr1),
                     DictGet(features2, commits[c].addr2))

\* Phase 3 has just scored an A-function against two B-functions: scoring
\* the first raised, and the second was scored after it and committed.
C15_Witness ==
    /\ JustScanned(3)
    /\ Len(scan_log) = 2
    /\ FaultsLogged = {1}
    /\ CommittedNow(3)
    /\ commits[Len(commits)].addr2 = scan_log[2].addr2

\* C16: a null feature mapping for A or for B makes the match operation
\* fail fast: unless the flag is set, the operation is at its start or has
\* raised, it never goes on to a later phase or to its normal end.  (What
\* raises is caught by run(): pc = "error".)
C16_NullMappingAborts ==
    (IsNull(features1) \/ IsNull(features2)) /\ ~cancelled =>
        \/ pc = "phase1" /\ i = 1
        \/ pc = "error"

\* The places of run() in the order it goes through them.
PlaceOf(p) ==
    CASE p = "extract1" -> 1 [] p = "check1" -> 2 [] p = "extract2" -> 3
      [] p = "check2" -> 4 [] p = "phase1" -> 5 [] p = "phase2" -> 6
      [] p = "phase3" -> 7 [] p = "check3" -> 8 [] p = "done" -> 9

\* C17: whatever the two mappings, empty ones among them, a run ends; the
\* matching pass goes through Phase 1, Phase 2 and Phase 3 in this order and
\* never back or past one; and a run that was not cancelled delivers the
\* matches committed, none when no function has a match.
C17_Terminates ==
    /\ <>(pc = "done")
    /\ [][ /\ PlaceOf(pc') >= PlaceOf(pc)
           /\ (PlaceOf(pc) >= 4 /\ ~cancelled') => PlaceOf(pc') <= PlaceOf(pc) + 1 ]_vars
    /\ [](Finished =>
            /\ Len(results) = Len(matched_funcs)
            /\ \A m \in DOMAIN matched_funcs :
                   /\ results[m].func1.start = matched_funcs[m].key
                   /\ results[m].func2.start = matched_funcs[m].value[1]
                   /\ results[m].similarity = matched_funcs[m].value[2])

\* A run that was not cancelled is over without a match: each binary held a
\* function, and every phase has passed over the pair.
C17_Witness ==
    /\ Finished
    /\ features1 # <<>> /\ features2 # <<>>
    /\ 0 \notin Keys(features2)
    /\ results = <<>>

\* What the claim gives for two collections of which emp1 and emp2 tell
\* whether they are empty: 1.0 for two empty ones, 0.0 for an empty and a
\* nonempty one (nothing is said of two nonempty ones).
EmptyRule(emp1, emp2, sim) ==
    /\ (emp1 /\ emp2) => sim = One
    /\ (emp1 # emp2) => sim = Zero

\* C18: _calculate_set_similarity and _calculate_histogram_similarity
\* return 1.0 when both collections are empty and 0.0 when exactly one is.
C18_EmptyCollections ==
    /\ \A c \in CallsVia("set") :
           EmptyRule(probe.func1.string_refs = <<>>, probe.func2.string_refs = <<>>,
                     probe.calls[c].similarity)
    /\ \A c \in CallsVia("histogram") :
           EmptyRule(DOMAIN probe.func1.mnemonic_hist = {},
                     DOMAIN probe.func2.mnemonic_hist = {},
                     probe.calls[c].similarity)

\* C18, amended: _calculate_set_similarity returns 1.0 when both sets are
\* empty and 0.0 when exactly one is; _calculate_histogram_similarity
\* returns 0.0 when either histogram is empty, when both are too.
C18_EmptyCollectionsAmended ==
    /\ \A c \in CallsVia("set") :
           EmptyRule(probe.func1.string_refs = <<>>, probe.func2.string_refs = <<>>,
                     probe.calls[c].similarity)
    /\ \A c \in CallsVia("histogram") :
           (DOMAIN probe.func1.mnemonic_hist = {} \/ DOMAIN probe.func2.mnemonic_hist = {})
               => probe.calls[c].similarity = Zero

\* Both sub-similarities were called on a pair of records without string
\* references and without histograms: the first returned 1.0, the second 0.0.
C18_Witness ==
    /\ probe.func1 # <<>>
    /\ probe.func1.string_refs = <<>> /\ probe.func2.string_refs = <<>>
    /\ DOMAIN probe.func1.mnemonic_hist = {} /\ DOMAIN probe.func2.mnemonic_hist = {}
    /\ \E c \in CallsVia("set") : probe.calls[c].similarity = One
    /\ \E c \in CallsVia("histogram") : probe.calls[c].similarity = Zero

\* The calls of _calculate_similarity_original that did not raise.
LabelledCalls ==
    {c \in CallsVia("original") : ~Faults(probe.func1, probe.func2)}

\* The label is one of those that contribute the most.
IsHighest(ts, label) ==
    \E k \in DOMAIN ts :
        /\ ts[k][1] = label
        /\ \A h \in DOMAIN ts : RLeq(ts[h][2], ts[k][2])

\* The label the claim gives for two records and their contributions.
LabelRule(func1, func2, ts, label) ==
    IF func1.function_hash = func2.function_hash THEN label = "Hash Match"
    ELSE IsHighest(ts, label)

LabelRuleOrMixed(func1, func2, ts, label) ==
    IF \A k \in DOMAIN ts : ~RGreater(ts[k][2], Zero) THEN label = "Mixed"
    ELSE LabelRule(func1, func2, ts, label)

Normalized(feat) ==
    /\ feat.size >= 1
    /\ feat.basic_block_count >= 1
    /\ feat.instruction_count >= 1

\* Every record of the mapping is normalized, and the record of a function
\* of bv without basic blocks has a block count and an instruction count
\* of 1.
NormalizedAll(features, bv) ==
    \A k \in DOMAIN features :
        /\ Normalized(features[k].value)
        /\ \A f \in DOMAIN bv :
               (bv[f].start = features[k].key /\ bv[f].basic_blocks = <<>>)
                   => /\ features[k].value.basic_block_count = 1
                      /\ features[k].value.instruction_count = 1

\* C20: every feature record extraction makes has a size, a block count and
\* an instruction count of at least 1, whatever the host reports, and a
\* function without basic blocks gets a block count and an instruction
\* count of 1.
C20_FeaturesNormalized ==
    /\ NormalizedAll(features1, bv1)
    /\ NormalizedAll(features2, bv2)
    /\ NormalizedAll(all_features, IF pc \in {"extract1", "check1"} THEN bv1 ELSE bv2)

\* Both binaries are extracted: the first holds a function whose analysis
\* raises and one of size 0 with a block whose instructions cannot be counted,
\* the second a function without blocks and one whose only block has no
\* instructions.
C20_Witness ==
    /\ pc = "phase1"
    /\ Len(features1) = 2 /\ Len(features2) = 2
    /\ bv1[1].raises
    /\ bv1[2].total_bytes = 0 /\ bv1[2].basic_blocks[1].raises
    /\ bv2[1].basic_blocks = <<>> /\ bv2[1].total_bytes = 0
    /\ Len(bv2[2].basic_blocks) = 1
    /\ bv2[2].basic_blocks[1].instructions = <<>>
    /\ features2[2].value.instruction_count = 1

\* A step of the matching pass (not the host's setting of the flag), or a
\* call of the scorer on its own.
PassStep == pc \in {"phase1", "phase2", "phase3"} /\ cancelled' = cancelled

ScorerStep == pc = "idle"

\* What the pass and the scorer are given.
given_vars == <<bv1, bv2, features1, features2, probe.feat1, probe.feat2>>

FirstOfBest(k) ==
    /\ \A h \in DOMAIN scan_log : RLeq(scan_log[h].score, scan_log[k].score)
    /\ \A h \in 1..(k - 1) : scan_log[h].score # scan_log[k].score

\* The score a candidate must exceed to become the best of a scan.
Floor(phase) == IF phase = 3 THEN Rat(2, 5) ELSE Zero

\* C22: in each phase the candidate a scan ends with is, among the
\* candidates of the best score, the one that comes first in the order of
\* features2, and a commit is to that candidate with that score.
C22_FirstOfTies ==
    \A phase \in 1..3 :
        JustScanned(phase) =>
            /\ \A k \in DOMAIN scan_log :
                   (FirstOfBest(k) /\ RGreater(scan_log[k].score, Floor(phase)))
                       => /\ best_match = scan_log[k].addr2
                          /\ best_score = scan_log[k].score
            /\ CommittedNow(phase)
                   => /\ commits[Len(commits)].addr2 = best_match
                      /\ commits[Len(commits)].score = best_score

\* A scan has compared two candidates of the same best score, and the pair
\* committed is with the first of them.
C22_Witness ==
    \E phase \in 1..3 :
        /\ JustScanned(phase)
        /\ CommittedNow(phase)
        /\ Len(scan_log) = 2
        /\ scan_log[1].score = scan_log[2].score
        /\ commits[Len(commits)].addr2 = scan_log[1].addr2
        /\ scan_log[1].addr2 # scan_log[2].addr2

\* The categories that apply, as if the others did not exist.
Applicable(cats) == SelectSeq(cats, LAMBDA c : c[1])

\* total_score / total_weight over the categories that apply.
WeightedAverage(cats) ==
    Normalize(SumOf(Applicable(cats), 2, Len(Applicable(cats))),
              SumOf(Applicable(cats), 3, Len(Applicable(cats))))

\* The calls of the scorer on two dictionaries, in either order, that did
\* not raise.
AveragedCalls ==
    {c \in CallsVia("original") \cup CallsVia("swapped") :
        ~Faults(probe.func1, probe.func2)}

\* C23: the scorer's result is total_score / total_weight, the sums of
\* weight * sub_similarity and of weight over the categories that apply to
\* both records; a category that does not apply changes neither sum.
C23_WeightedAverage ==
    \A c \in AveragedCalls :
        probe.calls[c].similarity
            = WeightedAverage(Categories(probe.func1, probe.func2))

\* The same with the jitter of the call added and the sum clamped.
WeightedAverageWithJitter ==
    \A c \in AveragedCalls :
        probe.calls[c].similarity
            = Clamp(RAdd(WeightedAverage(Categories(probe.func1, probe.func2)),
                         probe.calls[c].jitter))

\* The name category of the claim for two names as they are to be compared:
\* skipped when both start like a hexadecimal address, otherwise 1.0 for
\* equal names and 0.0 for different ones, with weight 1.
NameRule(name1, name2) ==
    IF StartsWith(name1, HexPrefix) /\ StartsWith(name2, HexPrefix)
    THEN <<FALSE, Zero, Zero>>
    ELSE <<TRUE, IF name1 = name2 THEN One ELSE Zero, One>>

\* What the scorer returns when the name category of cats is namecat.
WithNameCategory(cats, namecat, jitter) ==
    Clamp(RAdd(WeightedAverage([cats EXCEPT ![Len(cats)] = namecat]), jitter))

PositionOf(addr1) == CHOOSE k \in DOMAIN features1 : features1[k].key = addr1

\* The commits made after the flag was set: those of a later phase, and
\* those of the phase the flag was set in for the A-function at the position
\* the loop was at (its scan was under way, or about to begin) or for a
\* later one.
CommitsAfterFlag ==
    {c \in DOMAIN commits :
        \/ PlaceOf(PhasePc(commits[c].phase)) > PlaceOf(cancel_at[1])
        \/ /\ PhasePc(commits[c].phase) = cancel_at[1]
           /\ PositionOf(commits[c].addr1) >= cancel_at[3]}

\* C25: when the flag is set at any point, at most one match is committed
\* after it, the one of the outer iteration whose scan was under way (past
\* the check of the flag at its start); an iteration that had not started
\* commits nothing, and nothing is committed after the next check.
C25_OneMoreCommit ==
    cancelled =>
        /\ Cardinality(CommitsAfterFlag) <= 1
        /\ \A c \in CommitsAfterFlag :
               /\ cancel_at = <<PhasePc(commits[c].phase), "scan",
                                PositionOf(commits[c].addr1)>>
        /\ (pc \in {"phase1", "phase2", "phase3"} /\ at = "scan")
               => cancel_at = <<pc, "scan", i>>

\* The flag was set during the scan for the first A-function, whose match
\* was committed all the same, and the run is over without a match for the
\* second, which has a free namesake in B.
C25_Witness ==
    /\ pc = "done"
    /\ cancel_at = <<"phase1", "scan", 1>>
    /\ Len(commits) = 1
    /\ CommitsAfterFlag = {1}
    /\ \E a \in DOMAIN features1, b \in DOMAIN features2 :
           /\ features1[a].key \notin Keys(matched_funcs)
           /\ features2[b].key \notin used_funcs2
           /\ features2[b].key # 0
           /\ HashCandidate(features1[a].value, features2[b].value)

\* The pairs of an A-function without a match and a B-function that no
\* commit has consumed.
FreePairs ==
    {<<a, b>> \in (DOMAIN features1) \X (DOMAIN features2) :
        /\ features1[a].key \notin Keys(matched_funcs)
        /\ features2[b].key \notin used_funcs2}

\* C26: when a pass that was not cancelled is through its three phases, no
\* A-function without a match and B-function not consumed have a similarity
\* greater than 0.4, whatever the jitter of the call.
C26_Maximal ==
    (pc \in {"check3", "done"} /\ ~cancelled) =>
        \A p \in FreePairs : \A jitter \in Jitters :
            ~RGreater(_calculate_similarity(features1[p[1]].value,
                                            features2[p[2]].value, jitter),
                      Phase3Threshold)

\* C27: a B-function whose key is 0 is never the target of a commit, in any
\* phase and whatever its score, since the commit is guarded by the truth
\* value of the best candidate's address; and it is never added to the
\* consumed-set.
C27_AddressZeroNeverCommitted ==
    /\ \A c \in DOMAIN commits : commits[c].addr2 # 0
    /\ \A m \in DOMAIN matched_funcs : matched_funcs[m].value[1] # 0
    /\ 0 \notin used_funcs2
    /\ \A r \in DOMAIN results : results[r].func2.start # 0
    /\ \A phase \in 1..3 :
           (JustScanned(phase) /\ best_match = 0) => ~CommittedNow(phase)

\* A scan of Phase 3 has ended with the B-function at address 0 as its best
\* candidate, with a score above the threshold, and no phase has committed
\* anything.
C27_Witness ==
    /\ JustScanned(3)
    /\ best_match = 0
    /\ RGreater(best_score, Phase3Threshold)
    /\ ~CommittedNow(3)
    /\ 0 \in Keys(features2)
    /\ commits = <<>>

\* The B-functions at an address other than 0 that have the nonzero
\* structural hash of this A-function and that no earlier iteration has
\* consumed.
FreeHashTwins(feat1) ==
    {k \in DOMAIN features2 :
        /\ features2[k].key \notin Targets(Earlier(1))
        /\ features2[k].key # 0
        /\ HashCandidate(feat1, features2[k].value)}

\* (10 + 4 + 4) / 28.5: the hash, the density and the connectivity of two
\* records of the same hash, over the weights of the matching path.
HashFloor == Rat(36, 57)

\* C28: the threshold of Phase 1 never rejects a candidate: every candidate
\* it scores has a similarity of at least (10 + 4 + 4) / 28.5 before the
\* bonus, and whenever the A-function scanned has an unconsumed B-function
\* of its nonzero hash at an address other than 0, Phase 1 commits a match
\* for it.
C28_Phase1AlwaysCommits ==
    JustScanned(1) =>
        /\ \A k \in DOMAIN scan_log : RLeq(HashFloor, scan_log[k].similarity)
        /\ FreeHashTwins(features1[i - 1].value) # {} => CommittedNow(1)

\* The categories of the scorer that a feature record has nothing for.
ExtendedCategories == {5, 6, 7, 8, 12, 13}

\* C29: the similarity the matcher uses depends only on structural_hash,
\* basic_block_count, instruction_count and name: a record that differs
\* from another only in size, address or instruction_hash gets the same
\* score against any third record, and the histogram, the strings, the call
\* counts, the constants and the primes add nothing to either sum.
C29_DependsOnFourFields ==
    /\ \A c \in CallsVia("features"), d \in CallsVia("variant") :
           probe.calls[c].similarity = probe.calls[d].similarity
    /\ (CallsVia("features") \cup CallsVia("variant") # {}
            /\ ~Faults(probe.func1, probe.func2))
           => \A k \in ExtendedCategories :
                  Categories(OriginalFormat(probe.feat1),
                             OriginalFormat(probe.feat2))[k] = <<FALSE, Zero, Zero>>

\* The same for two calls that draw the same jitter.
SameScoreForSameJitter ==
    /\ \A c \in CallsVia("features"), d \in CallsVia("variant") :
           probe.calls[c].jitter = probe.calls[d].jitter
               => probe.calls[c].similarity = probe.calls[d].similarity
    /\ (CallsVia("features") \cup CallsVia("variant") # {}
            /\ ~Faults(probe.func1, probe.func2))
           => \A k \in ExtendedCategories :
                  Categories(OriginalFormat(probe.feat1),
                             OriginalFormat(probe.feat2))[k] = <<FALSE, Zero, Zero>>

\* The two feature records of a commit have the structural hash 0.
ZeroHashPair(commit) ==
    /\ DictGet(features1, commit.addr1).structural_hash = 0
    /\ DictGet(features2, commit.addr2).structural_hash = 0

\* C30: Phase 1 never pairs two records whose structural hashes are both 0
\* (it does not score them), yet the scorer takes their hashes for equal:
\* the hash category contributes its full weight 10 and the dominant
\* technique is the hash-match label.  (That Phase 2 or Phase 3 can commit
\* such a pair is C30_Witness.)
C30_ZeroHashPairs ==
    /\ \A c \in DOMAIN commits : commits[c].phase = 1 => ~ZeroHashPair(commits[c])
    /\ JustScanned(1) =>
           \A k \in DOMAIN scan_log :
               /\ features1[i - 1].value.structural_hash # 0
               /\ DictGet(features2, scan_log[k].addr2).structural_hash # 0
    /\ \A c \in CallsVia("original") \cup CallsVia("swapped") :
           ( /\ ~Faults(probe.func1, probe.func2)
             /\ probe.func1.function_hash = 0
             /\ probe.func2.function_hash = 0 )
               => /\ Categories(probe.func1, probe.func2)[1]
                         = <<TRUE, FromInt(WeightHash), FromInt(WeightHash)>>
                  /\ probe.calls[c].technique = "Hash Match"

\* Phase 1 and Phase 2 have passed over an A-function and a B-function whose
\* structural hashes are both 0, and Phase 3 has committed the pair with a
\* score of 1.0.
C30_Witness ==
    /\ JustScanned(3)
    /\ CommittedNow(3)
    /\ ZeroHashPair(commits[Len(commits)])
    /\ commits[Len(commits)].score = One
    /\ commits[Len(commits)].addr2 # 0

=============================================================================
